---- MODULE Spec2Model ----
(***************************************************************************)
(* Fuel trim heatmap tool (src/fuel_trims.py).                             *)
(*                                                                         *)
(* One run of the script: load the log and the mapping table, resolve the  *)
(* column mapping, rename, filter, bin, and (when the update button is     *)
(* pressed) build the pivot tables, the validity masks, the sample-count   *)
(* overlay and the time series.                                            *)
(*                                                                         *)
(* Numbers are integers; a mean is an exact fraction in lowest terms.      *)
(* A DataFrame is [columns, dtypes, rows], a row is [idx, cells], a cell   *)
(* is [k, v] with k one of "num", "nan" (null) or "str" (a string of an    *)
(* object column).                                                         *)
(***************************************************************************)
EXTENDS Integers, Sequences, FiniteSets, TLC

VARIABLES
    log_file, map_file,            \* the uploaded tables (CSV contents)
    rpm_bin_size, map_bin_size,    \* sidebar configuration
    min_samples, trim_range,
    update_button, selected_mode,
    pc,                            \* position of the script
    status,                        \* what st.error / st.info reported
    df_log, df_map,
    column_mapping, missing,
    df,
    pivot, count, valid_mask, fig_trim,
    pivot_stft, pivot_ltft, mask_stft, mask_ltft, combined_mask,
    fig_stft, fig_ltft,
    fig_count, ts_chart,
    runs,                          \* script runs started in this session
    ref                            \* a remembered earlier run: its inputs and outputs

inputVars == <<log_file, map_file, rpm_bin_size, map_bin_size, min_samples,
               trim_range, update_button, selected_mode>>
schemaVars == <<df_map, column_mapping, missing>>
gridVars == <<pivot, count, valid_mask, fig_trim, pivot_stft, pivot_ltft,
              mask_stft, mask_ltft, combined_mask, fig_stft, fig_ltft,
              fig_count, ts_chart>>
vars == <<inputVars, pc, status, df_log, schemaVars, df, gridVars, runs, ref>>

----------------------------------------------------------------------------
(* Bounds of the model *)

MaxRows == 2
MaxExtraRows == 1
MaxRuns == 3

----------------------------------------------------------------------------
(* Values *)

Unset == [set |-> FALSE]
Val(x) == [set |-> TRUE, val |-> x]

N(v) == [k |-> "num", v |-> v]
NaN == [k |-> "nan", v |-> 0]
Text == [k |-> "text", v |-> 0]
Str == [k |-> "str", v |-> 0]

REQUIRED_COLUMNS == <<"MAP_mbar", "RPM", "STFT", "LTFT">>

RpmBinSizes == {250, 500, 1000}
MapBinSizes == {25, 50, 100}

SideBySide == "STFT & LTFT Side-by-Side"
trim_modes ==
    [m \in {"Short Term Fuel Trim (STFT)", "Long Term Fuel Trim (LTFT)",
            "Combined Fuel Trim (STFT + LTFT)"} |->
        CASE m = "Short Term Fuel Trim (STFT)" -> "STFT"
          [] m = "Long Term Fuel Trim (LTFT)" -> "LTFT"
          [] OTHER -> "TotalTrim"]
Modes == DOMAIN trim_modes \cup {SideBySide}

Range(f) == {f[x] : x \in DOMAIN f}

RECURSIVE SumOver(_, _)
SumOver(f, S) ==
    IF S = {} THEN 0
    ELSE LET x == CHOOSE y \in S : TRUE IN f[x] + SumOver(f, S \ {x})

Abs(x) == IF x < 0 THEN -x ELSE x

RECURSIVE GCD(_, _)
GCD(a, b) == IF b = 0 THEN a ELSE GCD(b, a % b)

----------------------------------------------------------------------------
(* Uploaded tables and configurations the runs are checked on *)

CsvTable(columns, rows) == [columns |-> columns, rows |-> rows]

LogHeader == <<"m", "r", "s", "l">>

ScenarioRow == <<N(500), N(1000), N(2), N(1)>>

\* rows of a log with header m, r, s, l (manifold pressure, RPM, STFT, LTFT)
RowPool ==
    { ScenarioRow,
      <<N(500), N(1000), N(3), N(-4)>>,
      <<N(24), N(249), N(-3), N(5)>>,
      <<N(25), N(250), N(2), N(-2)>>,
      <<N(50), N(500), N(3), N(1)>>,
      <<N(100), N(1000), N(-2), N(2)>>,
      <<N(500), N(1000), N(2), NaN>>,
      <<N(500), N(-5), N(2), N(1)>>,
      <<N(0), N(1000), N(2), N(1)>>,
      <<N(500), Text, N(2), N(1)>> }

\* logs with nulls and text in the other columns
OddLogs ==
    { << <<N(500), N(1000), Text, N(1)>> >>,
      << ScenarioRow, <<N(500), N(1000), Text, N(1)>> >>,
      << <<N(500), N(1000), Text, Text>> >>,
      << <<N(500), Text, N(2), NaN>> >>,
      << <<NaN, N(1000), N(2), N(1)>>, ScenarioRow >>,
      << <<Text, N(1000), NaN, N(1)>>, <<N(500), N(1000), N(2), N(1)>> >> }

GoodMapRows == <<<<"m", "MAP_mbar">>, <<"r", "RPM">>, <<"s", "STFT">>, <<"l", "LTFT">>>>

MapTable(columns, rows) == [columns |-> columns, rows |-> rows]

GoodMap == MapTable({"original", "new"}, GoodMapRows)

Config(rb, mb, ms, tr, ub, mode) ==
    [rpm_bin_size |-> rb, map_bin_size |-> mb, min_samples |-> ms,
     trim_range |-> tr, update_button |-> ub, selected_mode |-> mode]

Combined == "Combined Fuel Trim (STFT + LTFT)"

DefaultConfig == Config(500, 50, 1, <<-50, 50>>, TRUE, Combined)

Thresholds == { <<1, <<-50, 50>>>>, <<2, <<-50, 50>>>>, <<1, <<2, 3>>>>, <<1, <<-2, 2>>>> }

Configs ==
    {Config(rb, mb, 1, <<-50, 50>>, TRUE, Combined) :
        rb \in RpmBinSizes, mb \in MapBinSizes}
    \cup {Config(500, 50, t[1], t[2], TRUE, mode) : t \in Thresholds, mode \in Modes}
    \cup {Config(500, 50, 1, <<-50, 50>>, FALSE, SideBySide)}

Input(log, map, cfg) == [log |-> log, map |-> map, cfg |-> cfg]

\* rows of a mapping table beside the four of GoodMapRows
ExtraMapRows == { <<"x", "RPM">>, <<"x", "STFT">>, <<"s", "LTFT">> }

\* the rows of GoodMapRows at the positions of keep, in order
RECURSIVE Pick(_, _)
Pick(rows, keep) ==
    IF rows = <<>> THEN <<>>
    ELSE Pick(SubSeq(rows, 1, Len(rows) - 1), keep)
         \o (IF Len(rows) \in keep THEN <<rows[Len(rows)]>> ELSE <<>>)

Headers ==
    { <<"m", "r", "s", "l", "x">>,
      <<"m", "r", "s">>,
      <<"m", "RPM", "s", "l">> }

\* one row of numbers under a header: each column has its own value
SchemaValue(c) ==
    CASE c = "m" -> 500
      [] c = "r" -> 1000
      [] c = "RPM" -> 2000
      [] c = "s" -> 2
      [] c = "l" -> 1
      [] OTHER -> 1500

SchemaLog(h) == CsvTable(h, << [j \in 1..Len(h) |-> N(SchemaValue(h[j]))] >>)

\* inputs of the runs that follow one another in a session
RerunInputs ==
    {Input(CsvTable(LogHeader, rows), GoodMap, cfg) :
        rows \in { <<ScenarioRow, <<N(50), N(500), N(3), N(1)>> >>,
                   <<ScenarioRow, <<N(500), Text, N(2), N(1)>> >> },
        cfg \in {DefaultConfig, Config(500, 50, 2, <<2, 3>>, TRUE, SideBySide),
                  Config(250, 25, 1, <<-2, 2>>, FALSE, SideBySide)}}
    \cup {Input(SchemaLog(<<"m", "r", "s", "l", "x">>), MapTable(cols, rows), DefaultConfig) :
            cols \in {{"original", "new"}, {"original"}},
            rows \in {GoodMapRows, SubSeq(GoodMapRows, 1, 3)}}

----------------------------------------------------------------------------
(* pandas: reading, column access *)

\* pd.read_csv: a column holding text that is no number is an object column,
\* whose non-null entries are all strings (their content is not tracked);
\* the rows are labelled 0, 1, ...
read_csv(file) ==
    LET n == Len(file.columns)
        isObject(j) == \E i \in 1..Len(file.rows) : file.rows[i][j].k = "text"
    IN  [columns |-> file.columns,
         dtypes |-> [j \in 1..n |-> IF isObject(j) THEN "object" ELSE "num"],
         rows |-> [i \in 1..Len(file.rows) |->
                     [idx |-> i - 1,
                      cells |-> [j \in 1..n |->
                                   IF isObject(j) /\ file.rows[i][j].k # "nan"
                                   THEN Str ELSE file.rows[i][j]]]]]

\* positions of the columns called name
Positions(frame, name) == {j \in 1..Len(frame.columns) : frame.columns[j] = name}

\* position of the one column called name
Col(frame, name) == CHOOSE j \in Positions(frame, name) : TRUE

IsObject(frame, name) == frame.dtypes[Col(frame, name)] = "object"

Duplicated(frame, name) == Cardinality(Positions(frame, name)) > 1

SelectRows(frame, Keep(_)) ==
    [frame EXCEPT !.rows = SelectSeq(frame.rows, Keep)]

----------------------------------------------------------------------------
(* Schema resolver: lines 46-54 *)

\* the check with "and" for "or": one of the two columns is enough
HasAMappingColumn(dfm) == "original" \in dfm.columns \/ "new" \in dfm.columns

HasMappingColumns(dfm) == "original" \in dfm.columns /\ "new" \in dfm.columns

\* a dict in which the first row with a key stands
RECURSIVE DictZipFirst(_)
DictZipFirst(rows) ==
    IF rows = <<>> THEN <<>>
    ELSE LET d == DictZipFirst(SubSeq(rows, 1, Len(rows) - 1))
             last == rows[Len(rows)]
         IN  [k \in DOMAIN d \cup {last[1]} |-> IF k \in DOMAIN d THEN d[k] ELSE last[2]]

\* dict(zip(df_map['original'], df_map['new'])): a later row replaces an
\* earlier one with the same key
RECURSIVE DictZip(_)
DictZip(rows) ==
    IF rows = <<>> THEN <<>>
    ELSE LET d == DictZip(SubSeq(rows, 1, Len(rows) - 1))
             last == rows[Len(rows)]
         IN  [k \in DOMAIN d \cup {last[1]} |-> IF k = last[1] THEN last[2] ELSE d[k]]

\* [col for col in REQUIRED_COLUMNS if col not in column_mapping.values()]
MissingColumns(mapping) ==
    LET NotMapped(col) == col \notin Range(mapping)
    IN  SelectSeq(REQUIRED_COLUMNS, NotMapped)

\* df_log.rename(columns=column_mapping, inplace=True)
rename(frame, mapping) ==
    [frame EXCEPT !.columns =
        [j \in 1..Len(frame.columns) |->
            IF frame.columns[j] \in DOMAIN mapping
            THEN mapping[frame.columns[j]] ELSE frame.columns[j]]]

----------------------------------------------------------------------------
(* Record filter: lines 57-58 *)

RequiredPositions(frame) ==
    {j \in 1..Len(frame.columns) : frame.columns[j] \in Range(REQUIRED_COLUMNS)}

\* dropna(subset=REQUIRED_COLUMNS) raises KeyError for a name that is no column
DropnaRaises(frame) ==
    \E c \in Range(REQUIRED_COLUMNS) : Positions(frame, c) = {}

dropna(frame) ==
    LET Keep(row) == \A j \in RequiredPositions(frame) : row.cells[j].k # "nan"
    IN  SelectRows(frame, Keep)

\* (df['MAP_mbar'] > 0) & (df['RPM'] > 0): a name held by two columns selects
\* a DataFrame, and lines 58-61 then raise; comparing strings with 0 raises
\* TypeError
PositiveRaises(frame) ==
    \/ Duplicated(frame, "MAP_mbar") \/ Duplicated(frame, "RPM")
    \/ /\ frame.rows # <<>>
       /\ IsObject(frame, "MAP_mbar") \/ IsObject(frame, "RPM")

positive(frame) ==
    LET Keep(row) == /\ row.cells[Col(frame, "MAP_mbar")].v > 0
                     /\ row.cells[Col(frame, "RPM")].v > 0
    IN  SelectRows(frame, Keep)

----------------------------------------------------------------------------
(* Binning: lines 60-62 *)

\* binning that rounds to the nearest bin start
round_bin(v, size) == ((2 * v + size) \div (2 * size)) * size

\* (series // size) * size
floor_bin(v, size) == (v \div size) * size

\* df['STFT'] + df['LTFT']: a name held by two columns selects a DataFrame,
\* and the assignment of line 62 raises; a string plus a number raises
\* TypeError
BinRaises(frame) ==
    \/ Duplicated(frame, "STFT") \/ Duplicated(frame, "LTFT")
    \/ /\ frame.rows # <<>>
       /\ IsObject(frame, "STFT") # IsObject(frame, "LTFT")

\* STFT - LTFT
SubCell(a, b) == IF a.k = "str" \/ b.k = "str" THEN Str ELSE N(a.v - b.v)

AddCell(a, b) == IF a.k = "str" \/ b.k = "str" THEN Str ELSE N(a.v + b.v)

BinCell(c, size) == IF c.k = "str" THEN c ELSE N(floor_bin(c.v, size))

add_bins(frame) ==
    LET r == Col(frame, "RPM")
        m == Col(frame, "MAP_mbar")
        s == Col(frame, "STFT")
        l == Col(frame, "LTFT")
    IN  [columns |-> frame.columns \o <<"RPM_bin", "MAP_bin", "TotalTrim">>,
         dtypes |-> frame.dtypes \o
                    << frame.dtypes[r], frame.dtypes[m],
                       IF frame.dtypes[s] = "object" \/ frame.dtypes[l] = "object"
                       THEN "object" ELSE "num" >>,
         rows |-> [i \in 1..Len(frame.rows) |->
                     [frame.rows[i] EXCEPT !.cells =
                         @ \o << BinCell(@[r], rpm_bin_size),
                                 BinCell(@[m], map_bin_size),
                                 AddCell(@[s], @[l]) >>]]]

----------------------------------------------------------------------------
(* Aggregation: pivot_table, lines 133-134 and 144-146 *)

NaNQ == [nan |-> TRUE, num |-> 0, den |-> 1]

\* the number num / den, in lowest terms
Frac(num, den) ==
    LET g == GCD(Abs(num), den)
    IN  [nan |-> FALSE, num |-> num \div g, den |-> den \div g]

Geq(q, n) == ~q.nan /\ q.num >= n * q.den
Leq(q, n) == ~q.nan /\ q.num <= n * q.den

EmptyGrid == [index |-> {}, columns |-> {}, cells |-> <<>>]

\* the mean of an object column raises
PivotRaises(frame, value_col) ==
    frame.rows # <<>> /\ IsObject(frame, value_col)

\* frame.pivot_table(index='MAP_bin', columns='RPM_bin', values=value_col,
\* aggfunc=aggfunc): a table over the MAP bins and the RPM bins that occur,
\* NaN where no row has the pair; the cell of RPM bin r and MAP bin m is
\* cells[<<r, m>>]
pivot_table(frame, value_col, aggfunc) ==
    LET rb == Col(frame, "RPM_bin")
        mb == Col(frame, "MAP_bin")
        vc == Col(frame, value_col)
        rows == frame.rows
        group(key) == {i \in 1..Len(rows) :
                          /\ rows[i].cells[rb].v = key[1]
                          /\ rows[i].cells[mb].v = key[2]
                          /\ rows[i].cells[vc].k # "nan"}
        value == [i \in 1..Len(rows) |-> rows[i].cells[vc].v]
        agg(key) ==
            IF group(key) = {} THEN NaNQ
            ELSE IF aggfunc = "mean"
                 THEN Frac(SumOver(value, group(key)), Cardinality(group(key)))
                 ELSE Frac(Cardinality(group(key)), 1)
        index == {rows[i].cells[mb].v : i \in 1..Len(rows)}
        columns == {rows[i].cells[rb].v : i \in 1..Len(rows)}
    IN  IF rows = <<>> THEN EmptyGrid
        ELSE [index |-> index, columns |-> columns,
              cells |-> [key \in columns \X index |-> agg(key)]]

----------------------------------------------------------------------------
(* Validity mask and overlays: lines 73-109, 150 *)

\* the mask with count_df > min_samples
trim_mask_strict(pivot_df, count_df) ==
    [pivot_df EXCEPT !.cells =
        [key \in DOMAIN pivot_df.cells |->
            /\ key \in DOMAIN count_df.cells
            /\ Geq(count_df.cells[key], min_samples + 1)
            /\ Geq(pivot_df.cells[key], trim_range[1])
            /\ Leq(pivot_df.cells[key], trim_range[2])]]

\* (count_df >= min_samples) & (pivot_df >= min_trim) & (pivot_df <= max_trim)
trim_mask(pivot_df, count_df) ==
    LET min_trim == trim_range[1]
        max_trim == trim_range[2]
    IN  [pivot_df EXCEPT !.cells =
            [key \in DOMAIN pivot_df.cells |->
                /\ key \in DOMAIN count_df.cells
                /\ Geq(count_df.cells[key], min_samples)
                /\ Geq(pivot_df.cells[key], min_trim)
                /\ Leq(pivot_df.cells[key], max_trim)]]

\* grid.where(mask): NaN where the mask is false
where(grid, mask) ==
    [grid EXCEPT !.cells =
        [key \in DOMAIN grid.cells |->
            IF key \in DOMAIN mask.cells /\ mask.cells[key]
            THEN grid.cells[key] ELSE NaNQ]]

create_trim_heatmap(pivot_df, count_df) ==
    LET mask == trim_mask(pivot_df, count_df)
    IN  [fig |-> where(pivot_df, mask), mask |-> mask]

create_count_heatmap(count_df, mask) == where(count_df, mask)

\* mask_stft & mask_ltft
mask_and(a, b) ==
    [index |-> a.index \cup b.index, columns |-> a.columns \cup b.columns,
     cells |-> [key \in DOMAIN a.cells \cup DOMAIN b.cells |->
                  /\ key \in DOMAIN a.cells /\ a.cells[key]
                  /\ key \in DOMAIN b.cells /\ b.cells[key]]]

\* mask_stft | mask_ltft
mask_or(a, b) ==
    [index |-> a.index \cup b.index, columns |-> a.columns \cup b.columns,
     cells |-> [key \in DOMAIN a.cells \cup DOMAIN b.cells |->
                  \/ key \in DOMAIN a.cells /\ a.cells[key]
                  \/ key \in DOMAIN b.cells /\ b.cells[key]]]

create_timeseries_chart(frame) ==
    LET series(name) ==
            [i \in 1..Len(frame.rows) |-> frame.rows[i].cells[Col(frame, name)]]
    IN  [STFT |-> series("STFT"), LTFT |-> series("LTFT"),
         TotalTrim |-> series("TotalTrim")]

----------------------------------------------------------------------------
(* The script *)

Init ==
    /\ log_file = Unset /\ map_file = Unset
    /\ rpm_bin_size = Unset /\ map_bin_size = Unset
    /\ min_samples = Unset /\ trim_range = Unset
    /\ update_button = Unset /\ selected_mode = Unset
    /\ pc = "start" /\ status = "none"
    /\ df_log = Unset /\ df_map = Unset
    /\ column_mapping = Unset /\ missing = Unset
    /\ df = Unset
    /\ pivot = Unset /\ count = Unset /\ valid_mask = Unset /\ fig_trim = Unset
    /\ pivot_stft = Unset /\ pivot_ltft = Unset
    /\ mask_stft = Unset /\ mask_ltft = Unset /\ combined_mask = Unset
    /\ fig_stft = Unset /\ fig_ltft = Unset
    /\ fig_count = Unset /\ ts_chart = Unset
    /\ runs = 1
    /\ ref = Unset

\* an exception reaches the handler of lines 167-168
Raise ==
    /\ pc' = "error"
    /\ status' = "exception"

\* lines 15-19, 27, 36, 43-44: the widgets hold the inputs, both files are read
LoadData(in) ==
    /\ pc = "start"
    /\ log_file' = in.log
    /\ map_file' = in.map
    /\ rpm_bin_size' = in.cfg.rpm_bin_size
    /\ map_bin_size' = in.cfg.map_bin_size
    /\ min_samples' = in.cfg.min_samples
    /\ trim_range' = in.cfg.trim_range
    /\ update_button' = in.cfg.update_button
    /\ selected_mode' = in.cfg.selected_mode
    /\ df_log' = Val(read_csv(in.log))
    /\ df_map' = Val(in.map)
    /\ pc' = "loaded"
    /\ UNCHANGED <<status, column_mapping, missing, df, gridVars, runs, ref>>

\* the log varies, under the mapping m, r, s, l -> MAP_mbar, RPM, STFT, LTFT
LoadLog ==
    /\ pc = "start"
    /\ \E k \in 0..MaxRows : \E rows \in [1..k -> RowPool] : \E cfg \in Configs :
        LoadData(Input(CsvTable(LogHeader, rows), GoodMap, cfg))

LoadOddLog ==
    /\ pc = "start"
    /\ \E rows \in OddLogs : \E mode \in Modes :
        LoadData(Input(CsvTable(LogHeader, rows), GoodMap,
                       Config(500, 50, 1, <<-50, 50>>, TRUE, mode)))

\* five equal records, with a sample threshold they meet and one they miss
LoadScenario ==
    /\ pc = "start"
    /\ \E ms \in {1, 6} : \E mode \in Modes :
        LoadData(Input(CsvTable(LogHeader, [i \in 1..5 |-> ScenarioRow]), GoodMap,
                       Config(500, 50, ms, <<-50, 50>>, TRUE, mode)))

\* the mapping table and the log header vary, over a one-row log: some of the
\* four rows of GoodMapRows, with up to MaxExtraRows rows before and after
LoadSchema ==
    /\ pc = "start"
    /\ \E h \in Headers : \E keep \in SUBSET (1..4) :
       \E a \in 0..MaxExtraRows : \E b \in 0..MaxExtraRows :
       \E head \in [1..a -> ExtraMapRows] : \E tail \in [1..b -> ExtraMapRows] :
        LoadData(Input(SchemaLog(h),
                       MapTable({"original", "new"},
                                head \o Pick(GoodMapRows, keep) \o tail),
                       DefaultConfig))

\* a mapping table without its original or its new column
LoadBadMapTable ==
    /\ pc = "start"
    /\ \E cols \in {{"original"}, {"new"}, {}} :
       \E k \in 0..1 : \E rows \in [1..k -> RowPool] :
       \E cfg \in {DefaultConfig, Config(250, 25, 2, <<-2, 2>>, TRUE, SideBySide)} :
        LoadData(Input(CsvTable(LogHeader, rows), MapTable(cols, GoodMapRows), cfg))

\* lines 46-48
StopMissingMappingColumns ==
    /\ pc = "loaded"
    /\ ~HasMappingColumns(df_map.val)
    /\ status' = "missing_mapping_columns"
    /\ pc' = "stopped"
    /\ UNCHANGED <<inputVars, df_log, schemaVars, df, gridVars, runs, ref>>

\* lines 50-54
BuildColumnMapping ==
    /\ pc = "loaded"
    /\ HasMappingColumns(df_map.val)
    /\ LET mapping == DictZip(df_map.val.rows)
           miss == MissingColumns(mapping)
       IN  /\ column_mapping' = Val(mapping)
           /\ missing' = Val(miss)
           /\ IF miss # <<>>
              THEN status' = "missing_required" /\ pc' = "stopped"
              ELSE status' = status /\ pc' = "mapped"
    /\ UNCHANGED <<inputVars, df_log, df_map, df, gridVars, runs, ref>>

\* line 56
Rename ==
    /\ pc = "mapped"
    /\ df_log' = Val(rename(df_log.val, column_mapping.val))
    /\ pc' = "renamed"
    /\ UNCHANGED <<inputVars, status, schemaVars, df, gridVars, runs, ref>>

\* lines 57-58
Filter ==
    /\ pc = "renamed"
    /\ IF DropnaRaises(df_log.val)
       THEN Raise /\ df' = df
       ELSE LET dropped == dropna(df_log.val)
            IN  IF PositiveRaises(dropped)
                THEN Raise /\ df' = Val(dropped)
                ELSE /\ df' = Val(positive(dropped))
                     /\ pc' = "filtered"
                     /\ status' = status
    /\ UNCHANGED <<inputVars, df_log, schemaVars, gridVars, runs, ref>>

\* lines 60-62
Bin ==
    /\ pc = "filtered"
    /\ IF BinRaises(df.val)
       THEN Raise /\ df' = df
       ELSE /\ df' = Val(add_bins(df.val))
            /\ pc' = "binned"
            /\ status' = status
    /\ UNCHANGED <<inputVars, df_log, schemaVars, gridVars, runs, ref>>

\* lines 130-141, 158-162
UpdateSingle ==
    /\ pc = "binned"
    /\ update_button
    /\ selected_mode # SideBySide
    /\ LET value_col == trim_modes[selected_mode]
       IN  IF PivotRaises(df.val, value_col)
           THEN Raise /\ UNCHANGED gridVars
           ELSE LET p == pivot_table(df.val, value_col, "mean")
                    c == pivot_table(df.val, value_col, "count")
                    h == create_trim_heatmap(p, c)
                IN  /\ pivot' = Val(p)
                    /\ count' = Val(c)
                    /\ fig_trim' = Val(h.fig)
                    /\ valid_mask' = Val(h.mask)
                    /\ fig_count' = Val(create_count_heatmap(c, h.mask))
                    /\ ts_chart' = Val(create_timeseries_chart(df.val))
                    /\ pc' = "done"
                    /\ status' = "rendered"
                    /\ UNCHANGED <<pivot_stft, pivot_ltft, mask_stft, mask_ltft,
                                   combined_mask, fig_stft, fig_ltft>>
    /\ UNCHANGED <<inputVars, df_log, schemaVars, df, runs, ref>>

\* lines 130, 143-162
UpdateSideBySide ==
    /\ pc = "binned"
    /\ update_button
    /\ selected_mode = SideBySide
    /\ IF PivotRaises(df.val, "STFT") \/ PivotRaises(df.val, "LTFT")
       THEN Raise /\ UNCHANGED gridVars
       ELSE LET ps == pivot_table(df.val, "STFT", "mean")
                pl == pivot_table(df.val, "LTFT", "mean")
                c == pivot_table(df.val, "STFT", "count")
                hs == create_trim_heatmap(ps, c)
                hl == create_trim_heatmap(pl, c)
                combined == mask_or(hs.mask, hl.mask)
            IN  /\ pivot_stft' = Val(ps)
                /\ pivot_ltft' = Val(pl)
                /\ count' = Val(c)
                /\ fig_stft' = Val(hs.fig)
                /\ mask_stft' = Val(hs.mask)
                /\ fig_ltft' = Val(hl.fig)
                /\ mask_ltft' = Val(hl.mask)
                /\ combined_mask' = Val(combined)
                /\ fig_count' = Val(create_count_heatmap(c, combined))
                /\ ts_chart' = Val(create_timeseries_chart(df.val))
                /\ pc' = "done"
                /\ status' = "rendered"
                /\ UNCHANGED <<pivot, valid_mask, fig_trim>>
    /\ UNCHANGED <<inputVars, df_log, schemaVars, df, runs, ref>>

\* lines 164-165
ShowInfo ==
    /\ pc = "binned"
    /\ ~update_button
    /\ status' = "info"
    /\ pc' = "done"
    /\ UNCHANGED <<inputVars, df_log, schemaVars, df, gridVars, runs, ref>>

Next ==
    \/ LoadLog
    \/ LoadOddLog
    \/ LoadScenario
    \/ LoadSchema
    \/ LoadBadMapTable
    \/ StopMissingMappingColumns
    \/ BuildColumnMapping
    \/ Rename
    \/ Filter
    \/ Bin
    \/ UpdateSingle
    \/ UpdateSideBySide
    \/ ShowInfo

Spec == Init /\ [][Next]_vars

----------------------------------------------------------------------------
(* A session: the script runs again, from its first line, on every          *)
(* interaction                                                              *)

Outputs == <<pc, status, missing, df, gridVars>>

LoadAgain ==
    /\ pc = "start"
    /\ \E in \in RerunInputs : LoadData(in)

\* a rerun that leaves the names of the last run bound
RerunKeepsState ==
    /\ pc \in {"done", "stopped", "error"}
    /\ runs < MaxRuns
    /\ runs' = runs + 1
    /\ ref' \in {ref, Val([in |-> inputVars, out |-> Outputs, at |-> runs])}
    /\ pc' = "start"
    /\ UNCHANGED <<inputVars, status, df_log, schemaVars, df, gridVars>>

\* the script ends (lines 48, 54, 162, 165, 168) and is run again: no name of
\* the last run is bound in the new one; ref may keep what the last run did
Rerun ==
    /\ pc \in {"done", "stopped", "error"}
    /\ runs < MaxRuns
    /\ runs' = runs + 1
    /\ ref' \in {ref, Val([in |-> inputVars, out |-> Outputs, at |-> runs])}
    /\ log_file' = Unset /\ map_file' = Unset
    /\ rpm_bin_size' = Unset /\ map_bin_size' = Unset
    /\ min_samples' = Unset /\ trim_range' = Unset
    /\ update_button' = Unset /\ selected_mode' = Unset
    /\ pc' = "start" /\ status' = "none"
    /\ df_log' = Unset /\ df_map' = Unset
    /\ column_mapping' = Unset /\ missing' = Unset
    /\ df' = Unset
    /\ pivot' = Unset /\ count' = Unset /\ valid_mask' = Unset /\ fig_trim' = Unset
    /\ pivot_stft' = Unset /\ pivot_ltft' = Unset
    /\ mask_stft' = Unset /\ mask_ltft' = Unset /\ combined_mask' = Unset
    /\ fig_stft' = Unset /\ fig_ltft' = Unset
    /\ fig_count' = Unset /\ ts_chart' = Unset

NextSession ==
    \/ LoadAgain
    \/ StopMissingMappingColumns
    \/ BuildColumnMapping
    \/ Rename
    \/ Filter
    \/ Bin
    \/ UpdateSingle
    \/ UpdateSideBySide
    \/ ShowInfo
    \/ Rerun

SpecSession == Init /\ [][NextSession]_vars

----------------------------------------------------------------------------
(* What the claims speak of, read off the uploaded tables, the configuration *)
(* and the filtered records                                                  *)

Rendered == pc = "done" /\ status = "rendered"

\* the bin keys looked at: every key a grid of these runs holds, and more
RpmAxis == {0, 250, 500, 750, 1000, 1500, 2000}
MapAxis == {0, 25, 50, 75, 100, 500}
BinKeys == RpmAxis \X MapAxis

\* b is the start of the bin of width size that holds v
BinOf(v, size, b) == b % size = 0 /\ b <= v /\ v < b + size

\* the filtered records (rows of df) whose bin key is key and whose signal is
\* not null
Members(signal, key) ==
    LET f == df.val
        sigOk(row) ==
            IF signal = "TotalTrim"
            THEN row.cells[Col(f, "STFT")].k = "num" /\ row.cells[Col(f, "LTFT")].k = "num"
            ELSE row.cells[Col(f, signal)].k = "num"
    IN  {i \in 1..Len(f.rows) :
            /\ BinOf(f.rows[i].cells[Col(f, "RPM")].v, rpm_bin_size, key[1])
            /\ BinOf(f.rows[i].cells[Col(f, "MAP_mbar")].v, map_bin_size, key[2])
            /\ sigOk(f.rows[i])}

\* the sum of the signal over those records
SignalSum(signal, key) ==
    LET f == df.val
        val == [i \in 1..Len(f.rows) |->
                  IF signal = "TotalTrim"
                  THEN f.rows[i].cells[Col(f, "STFT")].v + f.rows[i].cells[Col(f, "LTFT")].v
                  ELSE f.rows[i].cells[Col(f, signal)].v]
    IN  SumOver(val, Members(signal, key))

Present(grid, key) == key \in DOMAIN grid.cells /\ ~grid.cells[key].nan

MaskAt(mask, key) == key \in DOMAIN mask.cells /\ mask.cells[key]

\* the grids of values and masks the run displays, each with its signal
Displayed ==
    IF selected_mode = SideBySide
    THEN { [signal |-> "STFT", grid |-> pivot_stft.val, mask |-> mask_stft.val],
           [signal |-> "LTFT", grid |-> pivot_ltft.val, mask |-> mask_ltft.val] }
    ELSE { [signal |-> trim_modes[selected_mode], grid |-> pivot.val,
            mask |-> valid_mask.val] }

NoGridOutput == \A i \in 1..Len(gridVars) : gridVars[i] = Unset

----------------------------------------------------------------------------
(* C1 *)

\* C1: for every bin key and every displayed signal, the validity mask is
\* true exactly when the key is present in the signal's grid, the number of
\* filtered records of the signal in the cell is at least min_samples, and
\* trim_min <= mean <= trim_max, both inclusive; absent keys are false.
C1_ValidityMask ==
    Rendered =>
        \A d \in Displayed :
            /\ DOMAIN d.mask.cells \subseteq BinKeys
            /\ \A key \in BinKeys :
                MaskAt(d.mask, key) <=>
                    /\ Present(d.grid, key)
                    /\ Cardinality(Members(d.signal, key)) >= min_samples
                    /\ trim_range[1] * d.grid.cells[key].den <= d.grid.cells[key].num
                    /\ d.grid.cells[key].num <= trim_range[2] * d.grid.cells[key].den

\* side by side, a cell whose count equals min_samples and whose LTFT mean
\* equals trim_min is valid, next to an absent cell of the rectangle
C1_Witness ==
    /\ Rendered
    /\ selected_mode = SideBySide
    /\ \E key \in DOMAIN mask_ltft.val.cells :
        /\ mask_ltft.val.cells[key]
        /\ Cardinality(Members("LTFT", key)) = min_samples
        /\ pivot_ltft.val.cells[key].num = trim_range[1] * pivot_ltft.val.cells[key].den
    /\ \E key \in DOMAIN mask_ltft.val.cells : ~Present(pivot_ltft.val, key)

----------------------------------------------------------------------------
(* C2 *)

\* C2: for every filtered record and every bin size, RPM_bin and MAP_bin are
\* floor(value / size) * size: the multiple of size with bin <= value <
\* bin + size; a value equal to size is in bin size, a positive value below
\* size in bin 0.
C2_FloorBinning ==
    pc \in {"binned", "done"} =>
        LET f == df.val
            ok(v, size, b) ==
                /\ BinOf(v, size, b)
                /\ (v = size => b = size)
                /\ (0 < v /\ v < size => b = 0)
        IN  \A i \in 1..Len(f.rows) :
                /\ ok(f.rows[i].cells[Col(f, "RPM")].v, rpm_bin_size,
                      f.rows[i].cells[Col(f, "RPM_bin")].v)
                /\ ok(f.rows[i].cells[Col(f, "MAP_mbar")].v, map_bin_size,
                      f.rows[i].cells[Col(f, "MAP_bin")].v)

\* a record on the boundary of both bins and a record below both sizes
C2_Witness ==
    /\ pc = "binned"
    /\ LET f == df.val
       IN  /\ \E i \in 1..Len(f.rows) :
                /\ f.rows[i].cells[Col(f, "RPM")].v = rpm_bin_size
                /\ f.rows[i].cells[Col(f, "RPM_bin")].v = rpm_bin_size
                /\ f.rows[i].cells[Col(f, "MAP_mbar")].v = map_bin_size
           /\ \E i \in 1..Len(f.rows) :
                /\ f.rows[i].cells[Col(f, "RPM")].v < rpm_bin_size
                /\ f.rows[i].cells[Col(f, "MAP_bin")].v = 0

----------------------------------------------------------------------------
(* C3 *)

\* the log is renamed so that each required field names one column
FilterReached ==
    /\ pc \notin {"start", "loaded", "mapped", "stopped"}
    /\ \A c \in Range(REQUIRED_COLUMNS) : Cardinality(Positions(df_log.val, c)) = 1

\* the labels of the rows of the uploaded log whose required fields are all
\* numbers, with MAP_mbar > 0 and RPM > 0
ValidLabels ==
    LET src(c) == Col(df_log.val, c)
        valid(i) ==
            /\ \A c \in Range(REQUIRED_COLUMNS) : log_file.rows[i][src(c)].k = "num"
            /\ log_file.rows[i][src("MAP_mbar")].v > 0
            /\ log_file.rows[i][src("RPM")].v > 0
    IN  {i - 1 : i \in {j \in 1..Len(log_file.rows) : valid(j)}}

\* C3: the record filter raises no error and the run continues; its output is
\* the rows, in original order, whose four required fields are present and
\* numeric with MAP_mbar > 0 and RPM > 0.
C3_RecordFilter ==
    FilterReached /\ pc # "renamed" =>
        /\ pc # "error"
        /\ {df.val.rows[i].idx : i \in 1..Len(df.val.rows)} = ValidLabels
        /\ \A i \in 1..Len(df.val.rows) : \A j \in 1..Len(df.val.rows) :
              i < j => df.val.rows[i].idx < df.val.rows[j].idx

----------------------------------------------------------------------------
(* C4 *)

\* the required fields that are the target of no mapping row that stands:
\* a row stands when no later row has the same original
Uncovered ==
    LET rows == map_file.rows
        stands(i) == \A j \in 1..Len(rows) : j > i => rows[j][1] # rows[i][1]
    IN  {c \in Range(REQUIRED_COLUMNS) :
            ~\E i \in 1..Len(rows) : rows[i][2] = c /\ stands(i)}

\* C4: with both mapping columns present, the run stops with the missing
\* required fields reported exactly when not all required fields are
\* covered; the reported set is the set of uncovered fields, and nothing is
\* filtered, binned or masked in that run.
C4_MissingRequired ==
    /\ pc \notin {"start", "loaded"} /\ {"original", "new"} \subseteq map_file.columns =>
        /\ status = "missing_required" <=> Uncovered # {}
        /\ status = "missing_required" =>
            /\ pc = "stopped"
            /\ Range(missing.val) = Uncovered
            /\ df = Unset
            /\ NoGridOutput
    /\ status = "missing_required" => {"original", "new"} \subseteq map_file.columns

\* a mapping covering MAP_mbar, RPM and STFT but not LTFT reports LTFT
C4_Witness ==
    /\ status = "missing_required"
    /\ missing.val = <<"LTFT">>
    /\ {map_file.rows[i][2] : i \in 1..Len(map_file.rows)} = {"MAP_mbar", "RPM", "STFT"}

----------------------------------------------------------------------------
(* C5 *)

\* C5: a mapping table without its original or its new column ends the run
\* with the mapping-columns error: no column mapping is built, no record
\* filtered, no grid, mask or time series produced.
C5_MissingMappingColumns ==
    /\ pc # "start" /\ ~({"original", "new"} \subseteq map_file.columns) =>
        /\ pc \in {"loaded", "stopped"}
        /\ pc = "stopped" => status = "missing_mapping_columns"
        /\ column_mapping = Unset /\ missing = Unset
        /\ df = Unset
        /\ NoGridOutput
    /\ status = "missing_mapping_columns" =>
        ~({"original", "new"} \subseteq map_file.columns)

\* a table with an original column only, over a log with a record
C5_Witness ==
    /\ pc = "stopped"
    /\ status = "missing_mapping_columns"
    /\ map_file.columns = {"original"}
    /\ log_file.rows # <<>>
    /\ selected_mode = SideBySide

----------------------------------------------------------------------------
(* C6 *)

\* C6: side by side, the combined mask is the OR of the STFT and the LTFT
\* mask over the union of their keys, and the sample-count overlay shows a
\* cell's count exactly when the cell is valid for STFT or for LTFT.
C6_CombinedMask ==
    Rendered /\ selected_mode = SideBySide =>
        LET keys == DOMAIN mask_stft.val.cells \cup DOMAIN mask_ltft.val.cells
        IN  /\ DOMAIN combined_mask.val.cells = keys
            /\ keys \subseteq BinKeys
            /\ \A key \in keys :
                combined_mask.val.cells[key] <=>
                    MaskAt(mask_stft.val, key) \/ MaskAt(mask_ltft.val, key)
            /\ \A key \in BinKeys :
                /\ Present(fig_count.val, key) <=>
                    MaskAt(mask_stft.val, key) \/ MaskAt(mask_ltft.val, key)
                /\ Present(fig_count.val, key) =>
                    /\ fig_count.val.cells[key].den = 1
                    /\ fig_count.val.cells[key].num = Cardinality(Members("STFT", key))

\* a cell valid for STFT only, shown in the overlay, and a present cell valid
\* for neither, not shown
C6_Witness ==
    /\ Rendered
    /\ selected_mode = SideBySide
    /\ \E key \in DOMAIN combined_mask.val.cells :
        /\ mask_stft.val.cells[key] /\ ~mask_ltft.val.cells[key]
        /\ Present(fig_count.val, key)
    /\ \E key \in DOMAIN combined_mask.val.cells :
        /\ Present(count.val, key)
        /\ ~combined_mask.val.cells[key]

----------------------------------------------------------------------------
(* C7 *)

\* the grids of values the run displays, each with its signal
ValueGrids == {[signal |-> d.signal, grid |-> d.grid] : d \in Displayed}

\* C7: a grid has a cell at a bin key exactly when a filtered record has
\* that key; its count is the number of those records and its mean their
\* sum divided by the count, with TotalTrim = STFT + LTFT per record; no
\* record gives an empty grid. Five records RPM 1000, MAP 500, STFT 2, LTFT 1
\* with bins 500/50 give the one cell (1000, 500), mean TotalTrim 3, count 5.
C7_GridCells ==
    Rendered =>
        /\ \A g \in ValueGrids :
            /\ DOMAIN g.grid.cells \subseteq BinKeys
            /\ DOMAIN count.val.cells = DOMAIN g.grid.cells
            /\ \A key \in BinKeys :
                LET n == Cardinality(Members(g.signal, key))
                IN  /\ Present(g.grid, key) <=> n > 0
                    /\ Present(count.val, key) <=> n > 0
                    /\ n > 0 =>
                        /\ count.val.cells[key].num = n
                        /\ count.val.cells[key].den = 1
                        /\ g.grid.cells[key].den > 0
                        /\ g.grid.cells[key].num * n
                             = SignalSum(g.signal, key) * g.grid.cells[key].den
        /\ (/\ log_file.rows = [i \in 1..5 |-> ScenarioRow]
            /\ selected_mode = Combined
            /\ rpm_bin_size = 500 /\ map_bin_size = 50) =>
                /\ DOMAIN pivot.val.cells = {<<1000, 500>>}
                /\ pivot.val.cells[<<1000, 500>>] = [nan |-> FALSE, num |-> 3, den |-> 1]
                /\ count.val.cells[<<1000, 500>>] = [nan |-> FALSE, num |-> 5, den |-> 1]

\* the five-record scenario, rendered
C7_Witness ==
    /\ Rendered
    /\ log_file.rows = [i \in 1..5 |-> ScenarioRow]
    /\ selected_mode = Combined
    /\ min_samples = 6
    /\ pivot.val.cells[<<1000, 500>>].num = 3
    /\ ~valid_mask.val.cells[<<1000, 500>>]

----------------------------------------------------------------------------
(* C9 *)

\* mapping rows i < j with different originals and the same required target
DuplicateTargets ==
    {p \in (1..Len(map_file.rows)) \X (1..Len(map_file.rows)) :
        /\ p[1] < p[2]
        /\ map_file.rows[p[1]][1] # map_file.rows[p[2]][1]
        /\ map_file.rows[p[1]][2] = map_file.rows[p[2]][2]
        /\ map_file.rows[p[1]][2] \in Range(REQUIRED_COLUMNS)}

\* C9: when two source columns are mapped to the same canonical field, the
\* run does not fail, and the field's values used downstream are those of the
\* source column named in the last such mapping row.
C9_LastMappingWins ==
    /\ pc \notin {"start", "loaded", "mapped", "renamed", "stopped"}
    /\ DuplicateTargets # {}
    =>  /\ pc # "error"
        /\ \A p \in DuplicateTargets :
            (~\E q \in DuplicateTargets : q[1] = p[1] /\ q[2] > p[2]) =>
                LET field == map_file.rows[p[2]][2]
                    source == map_file.rows[p[2]][1]
                    at == CHOOSE j \in 1..Len(log_file.columns) :
                              log_file.columns[j] = source
                IN  /\ source \in Range(log_file.columns)
                    /\ \A i \in 1..Len(df.val.rows) :
                          df.val.rows[i].cells[Col(df.val, field)]
                            = log_file.rows[df.val.rows[i].idx + 1][at]

----------------------------------------------------------------------------
(* C10 *)

\* C10: when both resolver checks pass, the renamed log has each of MAP_mbar,
\* RPM, STFT and LTFT as a column, and the run does not end in the generic
\* error for lack of a required column.
C10_RequiredColumnsPresent ==
    pc \notin {"start", "loaded", "mapped", "stopped"} =>
        /\ \A c \in Range(REQUIRED_COLUMNS) : c \in Range(df_log.val.columns)
        /\ ~(pc = "error" /\ DropnaRaises(df_log.val))

----------------------------------------------------------------------------
(* C8 *)

\* C8: a run with the log, the mapping table and the configuration of an
\* earlier run of the session ends as that run did, whatever ran in between:
\* the same grids, counts and masks, or the same error.
C8_SameInputsSameOutputs ==
    pc \in {"done", "stopped", "error"} /\ ref # Unset /\ ref.val.in = inputVars =>
        ref.val.out = Outputs

\* the third run renders what the first run rendered, a run in between
C8_Witness ==
    /\ Rendered
    /\ runs = 3
    /\ ref # Unset
    /\ ref.val.at = 1
    /\ ref.val.in = inputVars
    /\ ref.val.out = Outputs

====
